---- MODULE Spec2Model ----
(***************************************************************************)
(* Node type registry, type tag allocation and slot type collection of the *)
(* AST code generator (support/codegen/ast.py,                             *)
(* scripts/modules/codegen/ast.py), the tagged unions of                   *)
(* scripts/modules/codegen/unions.py and utils/codegen/unions.py, and the  *)
(* VM object hierarchy of support/codegen/objects.py.                      *)
(*                                                                         *)
(* A name is a Python str, modelled as the sequence of its code points, so *)
(* that sorted(..., key=name) and the f-strings "First{name}" and          *)
(* "Last{name}" are computed as Python computes them.                      *)
(***************************************************************************)
EXTENDS Integers, Sequences, FiniteSets, TLC

VARIABLES heap, written, decls, NODE_TYPES, pc, error, lastCall, runs

vars == <<heap, written, decls, NODE_TYPES, pc, error, lastCall, runs>>

(***************************************************************************)
(* Bounds.                                                                 *)
(***************************************************************************)
\* Longest list of freely chosen declarations handed to NodeRegistry(...).
MaxTypes == 3

\* Number of type_tags() calls recorded against one registry.
MaxRuns == 2

(***************************************************************************)
(* Names: "Node", "Expr", "Stmt", "Literal", "Call", "ExprStmt",           *)
(* "FirstExpr" as code point sequences.                                    *)
(***************************************************************************)
N_Node == <<78, 111, 100, 101>>

N_Expr == <<69, 120, 112, 114>>

N_Stmt == <<83, 116, 109, 116>>

N_Literal == <<76, 105, 116, 101, 114, 97, 108>>

N_Call == <<67, 97, 108, 108>>

N_ExprStmt == <<69, 120, 112, 114, 83, 116, 109, 116>>

N_FirstExpr == <<70, 105, 114, 115, 116, 69, 120, 112, 114>>

\* "First" and "Last", the literal parts of the range labels.
FirstPrefix == <<70, 105, 114, 115, 116>>

LastPrefix == <<76, 97, 115, 116>>

\* The names a freely chosen declaration may use, as name or as base.
Names == {N_Expr, N_Node, N_Stmt}

\* All names that occur anywhere in the model.
AllNames == Names \cup {N_Call, N_Literal, N_ExprStmt, N_FirstExpr}

(***************************************************************************)
(* Python str comparison: lexicographic by code point, a proper prefix is  *)
(* smaller.                                                                *)
(***************************************************************************)
RECURSIVE StrLess(_, _)
StrLess(a, b) ==
    IF b = <<>> THEN FALSE
    ELSE IF a = <<>> THEN TRUE
    ELSE IF Head(a) # Head(b) THEN Head(a) < Head(b)
    ELSE StrLess(Tail(a), Tail(b))

(***************************************************************************)
(* References: None, a str naming a type, or a Type object (heap index).   *)
(***************************************************************************)
None == [kind |-> "none", name |-> <<>>, ref |-> 0]

Str(n) == [kind |-> "str", name |-> n, ref |-> 0]

Obj(i) == [kind |-> "obj", name |-> <<>>, ref |-> i]

\* Type.__init__: base as given, derived = [].
Type(name, base, final) ==
    [name |-> name, base |-> base, final |-> final, derived |-> <<>>]

(***************************************************************************)
(* RootNode and Node, the subclasses of Type the registry of the AST is    *)
(* built from, and the members of a Node.  cls is the class of the object; *)
(* a member is held by value in the members list of its node, and `type`   *)
(* is its node_type, element_type or data_type.                            *)
(***************************************************************************)
\* "Ast", "AstPtr<", "AstNodeList<", "std::vector<", ">" and "int".
AstPrefix == <<65, 115, 116>>

AstPtrPrefix == <<65, 115, 116, 80, 116, 114, 60>>

AstNodeListPrefix == <<65, 115, 116, 78, 111, 100, 101, 76, 105, 115, 116, 60>>

VectorPrefix == <<115, 116, 100, 58, 58, 118, 101, 99, 116, 111, 114, 60>>

Closing == <<62>>

T_int == <<105, 110, 116>>

\* RootNode.__init__
RootNode(name, cpp_name) ==
    [name |-> name, base |-> None, final |-> FALSE, derived |-> <<>>,
     cls |-> "RootNode", cpp_name |-> cpp_name, members |-> <<>>]

\* Node.__init__: cpp_name = "Ast" + name.
Node(name, base, final, members) ==
    [name |-> name, base |-> base, final |-> final, derived |-> <<>>,
     cls |-> "Node", cpp_name |-> AstPrefix \o name, members |-> members]

\* isinstance(definition, Node)
IsNode(definition) ==
    "cls" \in DOMAIN definition /\ definition.cls = "Node"

DataMember(name, data_type) ==
    [kind |-> "data", name |-> name, type |-> Str(data_type)]

DataListMember(name, element_type) ==
    [kind |-> "data_list", name |-> name, type |-> Str(element_type)]

NodeMember(name, node_type) ==
    [kind |-> "node", name |-> name, type |-> node_type]

NodeListMember(name, element_type) ==
    [kind |-> "node_list", name |-> name, type |-> element_type]

\* isinstance(member, NodeMember) or isinstance(member, NodeListMember)
is_child(member) == member.kind \in {"node", "node_list"}

\* The property cpp_type of a member whose type is resolved.
cpp_type(h, member) ==
    CASE member.kind = "data" -> member.type.name
      [] member.kind = "data_list" -> VectorPrefix \o member.type.name \o Closing
      [] member.kind = "node" ->
             AstPtrPrefix \o h[member.type.ref].cpp_name \o Closing
      [] member.kind = "node_list" ->
             AstNodeListPrefix \o h[member.type.ref].cpp_name \o Closing

(***************************************************************************)
(* Errors.  The code raises RuntimeError throughout; the error kinds are   *)
(* told apart by the message of the raise statement:                       *)
(*   "Type ... was already defined."          DuplicateNameError           *)
(*   "Type ... was not defined."              UnknownTypeError             *)
(*   "Cannot derive from final type ..."      FinalDerivationError         *)
(*   "Base class without any children: ..."   EmptyHierarchyError          *)
(* RecursionError is the interpreter's own error for a recursion that      *)
(* does not end.                                                           *)
(***************************************************************************)
NoError == "none"

DuplicateNameError == "DuplicateNameError"

UnknownTypeError == "UnknownTypeError"

FinalDerivationError == "FinalDerivationError"

EmptyHierarchyError == "EmptyHierarchyError"

RecursionError == "RecursionError"

(***************************************************************************)
(* NodeRegistry.  self.types is a dict in insertion order: the sequence of *)
(* its items, key (a name) and val (an object).                            *)
(***************************************************************************)
\* name in self.types
HasName(types, name) == \E j \in 1..Len(types) : types[j].key = name

\* self.types[name]
Lookup(types, name) ==
    types[CHOOSE j \in 1..Len(types) : types[j].key = name].val

\* self.types[name] = definition
SetItem(types, name, definition) ==
    IF HasName(types, name)
    THEN [j \in 1..Len(types) |->
              IF types[j].key = name
              THEN [key |-> name, val |-> definition] ELSE types[j]]
    ELSE Append(types, [key |-> name, val |-> definition])

\* get that returns the first registered type for a name it does not know.
get_any(types, name) ==
    IF HasName(types, name) THEN [err |-> NoError, val |-> Lookup(types, name)]
    ELSE IF types # <<>> THEN [err |-> NoError, val |-> types[1].val]
    ELSE [err |-> UnknownTypeError, val |-> 0]

\* NodeRegistry.get
get(types, name) ==
    IF ~HasName(types, name)
    THEN [err |-> UnknownTypeError, val |-> 0]
    ELSE [err |-> NoError, val |-> Lookup(types, name)]

\* __add_all without the test for a name that is already defined.
RECURSIVE add_all_overwrite(_, _, _, _)
add_all_overwrite(h, definitions, i, types) ==
    IF i > Len(definitions) THEN [err |-> NoError, types |-> types]
    ELSE add_all_overwrite(
             h, definitions, i + 1,
             SetItem(types, h[definitions[i]].name, definitions[i]))

\* NodeRegistry.__add_all, from the i-th definition on.
RECURSIVE add_all(_, _, _, _)
add_all(h, definitions, i, types) ==
    IF i > Len(definitions) THEN [err |-> NoError, types |-> types]
    ELSE LET name == h[definitions[i]].name
         IN  IF HasName(types, name)
             THEN [err |-> DuplicateNameError, types |-> types]
             ELSE add_all(h, definitions, i + 1,
                          SetItem(types, name, definitions[i]))

\* resolve(name_or_type), the closure of __resolve_references.
resolve(types, name_or_type) ==
    IF name_or_type.kind = "none" THEN [err |-> NoError, val |-> None]
    ELSE IF name_or_type.kind = "obj" THEN [err |-> NoError, val |-> name_or_type]
    ELSE LET r == get(types, name_or_type.name)
         IN  IF r.err # NoError THEN [err |-> r.err, val |-> None]
             ELSE [err |-> NoError, val |-> Obj(r.val)]

\* A loop that resolves the Node members and skips the NodeList members.
RECURSIVE resolve_members_nodes_only(_, _, _, _)
resolve_members_nodes_only(h, types, d, k) ==
    IF k > Len(h[d].members) THEN [err |-> NoError, heap |-> h]
    ELSE LET member == h[d].members[k]
         IN  IF member.kind # "node"
             THEN resolve_members_nodes_only(h, types, d, k + 1)
             ELSE LET r == resolve(types, member.type)
                  IN  IF r.err # NoError THEN [err |-> r.err, heap |-> h]
                      ELSE resolve_members_nodes_only(
                               [h EXCEPT ![d].members[k].type = r.val],
                               types, d, k + 1)

\* The loop `for member in definition.members` of __resolve_references,
\* from the k-th member of object d on.
RECURSIVE resolve_members(_, _, _, _)
resolve_members(h, types, d, k) ==
    IF k > Len(h[d].members) THEN [err |-> NoError, heap |-> h]
    ELSE LET member == h[d].members[k]
         IN  IF ~is_child(member) THEN resolve_members(h, types, d, k + 1)
             ELSE LET r == resolve(types, member.type)
                  IN  IF r.err # NoError THEN [err |-> r.err, heap |-> h]
                      ELSE resolve_members(
                               [h EXCEPT ![d].members[k].type = r.val],
                               types, d, k + 1)

\* NodeRegistry.__resolve_references, from the i-th registered type on.
\* The references are replaced in place: a raise leaves the earlier ones
\* resolved.
RECURSIVE resolve_references(_, _, _)
resolve_references(h, types, i) ==
    IF i > Len(types) THEN [err |-> NoError, heap |-> h]
    ELSE LET d == types[i].val
             r == resolve(types, h[d].base)
         IN  IF r.err # NoError THEN [err |-> r.err, heap |-> h]
             ELSE LET based == [h EXCEPT ![d].base = r.val]
                      m == IF IsNode(based[d])
                           THEN resolve_members(based, types, d, 1)
                           ELSE [err |-> NoError, heap |-> based]
                  IN  IF m.err # NoError THEN m
                      ELSE resolve_references(m.heap, types, i + 1)

\* The first loop without the test of base.final.
RECURSIVE bind_loop_unchecked(_, _, _)
bind_loop_unchecked(h, types, i) ==
    IF i > Len(types) THEN [err |-> NoError, heap |-> h]
    ELSE LET d == types[i].val
         IN  IF h[d].base.kind = "none"
             THEN bind_loop_unchecked(h, types, i + 1)
             ELSE bind_loop_unchecked(
                      [h EXCEPT ![h[d].base.ref].derived = Append(@, d)],
                      types, i + 1)

\* First loop of __bind_base_classes, from the i-th registered type on.
RECURSIVE bind_loop(_, _, _)
bind_loop(h, types, i) ==
    IF i > Len(types) THEN [err |-> NoError, heap |-> h]
    ELSE LET d == types[i].val
         IN  IF h[d].base.kind = "none" THEN bind_loop(h, types, i + 1)
             ELSE LET base == h[d].base.ref
                  IN  IF h[base].final
                      THEN [err |-> FinalDerivationError, heap |-> h]
                      ELSE bind_loop(
                               [h EXCEPT ![base].derived = Append(@, d)],
                               types, i + 1)

\* Insertion of object x into a list sorted by name, behind every element
\* whose name is not greater (sorted() is stable).
RECURSIVE insert_sorted(_, _, _)
insert_sorted(h, s, x) ==
    IF s = <<>> THEN <<x>>
    ELSE IF StrLess(h[x].name, h[Head(s)].name) THEN <<x>> \o s
    ELSE <<Head(s)>> \o insert_sorted(h, Tail(s), x)

\* The list as it is, not sorted.
sorted_not(h, s) == s

\* sorted(derived, key=lambda definition: definition.name)
RECURSIVE sorted_by_name(_, _)
sorted_by_name(h, s) ==
    IF s = <<>> THEN <<>>
    ELSE insert_sorted(h, sorted_by_name(h, SubSeq(s, 1, Len(s) - 1)),
                       s[Len(s)])

\* The second loop left out.
sort_loop_none(h, types, i) == h

\* Second loop of __bind_base_classes, from the i-th registered type on.
RECURSIVE sort_loop(_, _, _)
sort_loop(h, types, i) ==
    IF i > Len(types) THEN h
    ELSE sort_loop(
             [h EXCEPT ![types[i].val].derived = sorted_by_name(h, @)],
             types, i + 1)

\* NodeRegistry.__bind_base_classes
\* __bind_base_classes without its second loop: derived stays in the order
\* of the declarations.
bind_base_classes_unsorted(h, types) == bind_loop(h, types, 1)

bind_base_classes(h, types) ==
    LET b == bind_loop(h, types, 1)
    IN  IF b.err # NoError THEN b
        ELSE [err |-> NoError, heap |-> sort_loop(b.heap, types, 1)]

\* NodeRegistry.__finish
finish(h, types) ==
    LET r == resolve_references(h, types, 1)
    IN  IF r.err # NoError THEN r
        ELSE bind_base_classes(r.heap, types)

\* A constructor that resolves the references before it looks for
\* duplicate names.
NodeRegistry_resolving_first(h, definitions) ==
    LET lenient == add_all_overwrite(h, definitions, 1, <<>>)
        r == resolve_references(h, lenient.types, 1)
        a == add_all(h, definitions, 1, <<>>)
    IN  IF r.err # NoError
        THEN [err |-> r.err, heap |-> r.heap, types |-> lenient.types]
        ELSE IF a.err # NoError
        THEN [err |-> a.err, heap |-> h, types |-> a.types]
        ELSE LET f == finish(h, a.types)
             IN  [err |-> f.err, heap |-> f.heap, types |-> a.types]

\* NodeRegistry.__init__: the registry, the heap it leaves and the error
\* it raises.
NodeRegistry(h, definitions) ==
    LET a == add_all(h, definitions, 1, <<>>)
    IN  IF a.err # NoError
        THEN [err |-> a.err, heap |-> h, types |-> a.types]
        ELSE LET f == finish(h, a.types)
             IN  [err |-> f.err, heap |-> f.heap, types |-> a.types]

(***************************************************************************)
(* The NodeRegistry of scripts/modules/codegen/ast.py.  Its                *)
(* __resolve_references replaces the bases only; a member keeps the name   *)
(* it was declared with, and its property cpp_type looks the name up in    *)
(* NODE_TYPES when it is read.                                             *)
(***************************************************************************)
ScriptsAst == "scripts/modules/codegen/ast.py"

\* NodeRegistry.__resolve_references of scripts/modules, from the i-th
\* registered type on.
RECURSIVE resolve_base_references(_, _, _)
resolve_base_references(h, types, i) ==
    IF i > Len(types) THEN [err |-> NoError, heap |-> h]
    ELSE LET d == types[i].val
             r == resolve(types, h[d].base)
         IN  IF r.err # NoError THEN [err |-> r.err, heap |-> h]
             ELSE resolve_base_references([h EXCEPT ![d].base = r.val],
                                          types, i + 1)

\* NodeRegistry.__init__ of scripts/modules
ScriptsNodeRegistry(h, definitions) ==
    LET a == add_all(h, definitions, 1, <<>>)
    IN  IF a.err # NoError
        THEN [err |-> a.err, heap |-> h, types |-> a.types]
        ELSE LET r == resolve_base_references(h, a.types, 1)
                 f == IF r.err # NoError THEN r
                      ELSE bind_base_classes(r.heap, a.types)
             IN  [err |-> f.err, heap |-> f.heap, types |-> a.types]

(***************************************************************************)
(* type_tags.  The result holds the list `tags` of (label, value) pairs as *)
(* the code builds it, and next to it, entry by entry, the node the entry  *)
(* was appended for and the append statement that made it (`owner`).       *)
(***************************************************************************)
\* Python raises RecursionError at a fixed depth far above the number of
\* types of any schema.  A visit of an acyclic hierarchy nests at most
\* once per object, so a deeper nesting never ends.
RecursionLimit(h) == Len(h) + 1

NoneInt == [isNone |-> TRUE, v |-> 0]

Int_(v) == [isNone |-> FALSE, v |-> v]

\* min that keeps its second argument.
min_second(a, b) == b

min(a, b) == IF a <= b THEN a ELSE b

max(a, b) == IF a >= b THEN a ELSE b

\* A counter that leaves out every second value.
next_value_skip(value) == value + 2

\* next_value += 1
next_value_after(value) == value + 1

\* A test for a missing range that never finds one.
is_none_never(first, last) == FALSE

\* first is None or last is None
is_none(first, last) == first.isNone \/ last.isNone

\* visit(node) of type_tags at nesting `depth`; st carries the nonlocals
\* next_value and tags, the raised error, the returned pair (low, high),
\* and the nodes visit was called for so far (`visited`).
RECURSIVE visit(_, _, _, _)
RECURSIVE visit_children(_, _, _, _, _, _, _)
visit(h, node, st, depth) ==
    IF depth > RecursionLimit(h) THEN [st EXCEPT !.err = RecursionError]
    ELSE IF h[node].final
    THEN LET value == st.next_value
         IN  [st EXCEPT !.next_value = next_value_after(value),
                        !.tags = Append(@, <<h[node].name, value>>),
                        !.owner = Append(@, <<node, "tag">>),
                        !.visited = Append(@, node),
                        !.low = value,
                        !.high = value]
    ELSE LET r == visit_children(h, h[node].derived, 1,
                                 [st EXCEPT !.visited = Append(@, node)],
                                 NoneInt, NoneInt, depth)
         IN  IF r.st.err # NoError THEN r.st
             ELSE IF is_none(r.first, r.last)
             THEN [r.st EXCEPT !.err = EmptyHierarchyError]
             ELSE [r.st EXCEPT
                      !.tags = @ \o <<<<FirstPrefix \o h[node].name, r.first.v>>,
                                      <<LastPrefix \o h[node].name, r.last.v>>>>,
                      !.owner = @ \o <<<<node, "first">>, <<node, "last">>>>,
                      !.low = r.first.v,
                      !.high = r.last.v]

\* The loop `for child in node.derived` of visit, from the i-th child on.
visit_children(h, derived, i, st, first, last, depth) ==
    IF i > Len(derived) THEN [st |-> st, first |-> first, last |-> last]
    ELSE LET r == visit(h, derived[i], st, depth + 1)
         IN  IF r.err # NoError
             THEN [st |-> r, first |-> first, last |-> last]
             ELSE visit_children(
                      h, derived, i + 1, r,
                      IF first.isNone THEN Int_(r.low)
                      ELSE Int_(min(first.v, r.low)),
                      IF last.isNone THEN Int_(r.high)
                      ELSE Int_(max(last.v, r.high)),
                      depth)

\* A counter that starts at 0.
visit_start_zero ==
    [next_value |-> 0, tags |-> <<>>, owner |-> <<>>, visited |-> <<>>,
     err |-> NoError, low |-> 0, high |-> 0]

\* tags = [], next_value = 1
visit_start ==
    [next_value |-> 1, tags |-> <<>>, owner |-> <<>>, visited |-> <<>>,
     err |-> NoError, low |-> 0, high |-> 0]

\* type_tags that hands out the tags appended before the raise.
type_tags_from_partial(h, types, start) ==
    LET root == get(types, N_Node)
    IN  IF root.err # NoError
        THEN [err |-> root.err, tags |-> <<>>, owner |-> <<>>,
              visited |-> <<>>]
        ELSE LET r == visit(h, root.val, start, 1)
             IN  [err |-> r.err, tags |-> r.tags, owner |-> r.owner,
                  visited |-> r.visited]

\* The body of type_tags() with its locals starting as `start`: the
\* returned list, or the error raised instead of a return.
type_tags_from(h, types, start) ==
    LET root == get(types, N_Node)
    IN  IF root.err # NoError
        THEN [err |-> root.err, tags |-> <<>>, owner |-> <<>>,
              visited |-> <<>>]
        ELSE LET r == visit(h, root.val, start, 1)
             IN  IF r.err # NoError
                 THEN [err |-> r.err, tags |-> <<>>, owner |-> <<>>,
                       visited |-> r.visited]
                 ELSE [err |-> NoError, tags |-> r.tags, owner |-> r.owner,
                       visited |-> r.visited]

\* type_tags() that leaves out the Last pair of every abstract type.
type_tags_without_last(h, types) ==
    LET r == type_tags_from(h, types, visit_start)
        keep == {k \in 1..Len(r.owner) : r.owner[k][2] # "last"}
        pick(s) == [i \in 1..Cardinality(keep) |->
                       s[CHOOSE k \in keep :
                             Cardinality({j \in keep : j < k}) = i - 1]]
    IN  [r EXCEPT !.tags = pick(r.tags), !.owner = pick(r.owner)]

\* type_tags()
type_tags(h, types) == type_tags_from(h, types, visit_start)

(***************************************************************************)
(* walk_types, walk_concrete_types and slot_types.  A generator is         *)
(* modelled by the list of the objects it yields and the error that ends   *)
(* it; AttributeError is the interpreter's error for an attribute the      *)
(* object does not have (None.get, str.cpp_name).                          *)
(***************************************************************************)
AttributeError == "AttributeError"

\* __walk_types(base) at nesting `depth`.
RECURSIVE walk_types_from(_, _, _)
RECURSIVE walk_derived(_, _, _, _)
walk_types_from(h, base, depth) ==
    IF base.kind = "none" THEN [err |-> NoError, types |-> <<>>]
    ELSE IF depth > RecursionLimit(h)
    THEN [err |-> RecursionError, types |-> <<>>]
    ELSE IF h[base.ref].final
    THEN [err |-> NoError, types |-> <<base.ref>>]
    ELSE LET r == walk_derived(h, h[base.ref].derived, 1, depth)
         IN  [err |-> r.err, types |-> <<base.ref>> \o r.types]

\* The loop `for child in base.derived` of __walk_types, from the i-th
\* child on.
walk_derived(h, derived, i, depth) ==
    IF i > Len(derived) THEN [err |-> NoError, types |-> <<>>]
    ELSE LET r == walk_types_from(h, Obj(derived[i]), depth + 1)
         IN  IF r.err # NoError THEN r
             ELSE LET rest == walk_derived(h, derived, i + 1, depth)
                  IN  [err |-> rest.err, types |-> r.types \o rest.types]

\* walk_types() without arguments: bases = [NODE_TYPES.get("Node")].
walk_types(h, types) ==
    LET root == get(types, N_Node)
    IN  IF root.err # NoError THEN [err |-> root.err, types |-> <<>>]
        ELSE walk_types_from(h, Obj(root.val), 1)

\* The elements of s that are final, in the order of s.
RECURSIVE only_final(_, _)
only_final(h, s) ==
    IF s = <<>> THEN <<>>
    ELSE IF h[Head(s)].final THEN <<Head(s)>> \o only_final(h, Tail(s))
    ELSE only_final(h, Tail(s))

\* walk_concrete_types() without arguments.
walk_concrete_types(h, types) ==
    LET w == walk_types(h, types)
    IN  [err |-> w.err, types |-> only_final(h, w.types)]

\* A member is named by its node and its position in that node's members.
MemberAt(h, m) == h[m[1]].members[m[2]]

\* A test that takes every key for a new one.
not_seen_always(member_seen, member_key) == TRUE

\* member_key not in member_seen
not_seen(member_seen, member_key) == member_key \notin member_seen

\* The loop `for member in node_type.members` of slot_types, from the
\* k-th member on; acc holds member_seen and member_types.
RECURSIVE slot_members(_, _, _, _)
slot_members(h, node_type, k, acc) ==
    IF "members" \notin DOMAIN h[node_type]
    THEN [acc EXCEPT !.err = AttributeError]
    ELSE IF k > Len(h[node_type].members) THEN acc
    ELSE LET member == h[node_type].members[k]
         IN  IF is_child(member) /\ member.type.kind # "obj"
             THEN [acc EXCEPT !.err = AttributeError]
             ELSE LET member_key == cpp_type(h, member)
                  IN  IF not_seen(acc.member_seen, member_key)
                         /\ is_child(member)
                      THEN slot_members(
                               h, node_type, k + 1,
                               [acc EXCEPT
                                   !.member_seen = @ \cup {member_key},
                                   !.member_types =
                                       Append(@, <<node_type, k>>)])
                      ELSE slot_members(h, node_type, k + 1, acc)

\* The loop `for node_type in walk_types()` over the yielded types, from
\* the i-th on.
RECURSIVE slot_nodes(_, _, _, _)
slot_nodes(h, walked, i, acc) ==
    IF i > Len(walked) THEN acc
    ELSE LET r == slot_members(h, walked[i], 1, acc)
         IN  IF r.err # NoError THEN r
             ELSE slot_nodes(h, walked, i + 1, r)

\* Insertion of member x into a list sorted by cpp_type, behind every
\* element whose cpp_type is not greater (sorted() is stable).
RECURSIVE insert_by_cpp_type(_, _, _)
insert_by_cpp_type(h, s, x) ==
    IF s = <<>> THEN <<x>>
    ELSE IF StrLess(cpp_type(h, MemberAt(h, x)),
                    cpp_type(h, MemberAt(h, Head(s))))
    THEN <<x>> \o s
    ELSE <<Head(s)>> \o insert_by_cpp_type(h, Tail(s), x)

\* The list as collected, not sorted.
sorted_by_cpp_type_not(h, s) == s

\* sorted(member_types, key=lambda member: member.cpp_type)
RECURSIVE sorted_by_cpp_type(_, _)
sorted_by_cpp_type(h, s) ==
    IF s = <<>> THEN <<>>
    ELSE insert_by_cpp_type(
             h, sorted_by_cpp_type(h, SubSeq(s, 1, Len(s) - 1)), s[Len(s)])

\* slot_types(): the members returned, or the error raised instead.
slot_types(h, types) ==
    LET w == walk_types(h, types)
        start == [member_seen |-> {}, member_types |-> <<>>, err |-> NoError]
        r == slot_nodes(h, w.types, 1, start)
    IN  IF r.err # NoError THEN [err |-> r.err, slots |-> <<>>]
        ELSE IF w.err # NoError THEN [err |-> w.err, slots |-> <<>>]
        ELSE [err |-> NoError,
              slots |-> sorted_by_cpp_type(h, r.member_types)]

(***************************************************************************)
(* The hierarchy of the end-to-end scenario of the specification.          *)
(***************************************************************************)
ScenarioTypes ==
    { Type(N_Node, None, FALSE),
      Type(N_Expr, Str(N_Node), FALSE),
      Type(N_Literal, Str(N_Expr), TRUE),
      Type(N_Call, Str(N_Expr), TRUE),
      Type(N_Stmt, Str(N_Node), FALSE),
      Type(N_ExprStmt, Str(N_Stmt), TRUE) }

\* Every list of distinct scenario types, in every order.
ScenarioLists ==
    UNION { { f \in [1..k -> ScenarioTypes] :
                \A i, j \in 1..k : i # j => f[i] # f[j] } :
            k \in 0..Cardinality(ScenarioTypes) }

(***************************************************************************)
(* State.                                                                  *)
(*   heap        the Type objects made so far, by object number            *)
(*   written     the constructor calls as written in the list literal, one *)
(*               per object; never changed afterwards                      *)
(*   decls       the list argument of NodeRegistry(...), object numbers    *)
(*   NODE_TYPES  the module global: unset, or the registry's types dict    *)
(*   pc          "declaring" while the list literal is evaluated, "ready"  *)
(*               once NODE_TYPES is assigned, "aborted" after its raise    *)
(*   error       the error that aborted the module                         *)
(*   lastCall    the latest call of get or type_tags and its outcome       *)
(*   runs        the outcomes of the type_tags calls so far                *)
(***************************************************************************)
NoCall ==
    [op |-> "none", arg |-> <<>>, err |-> NoError, val |-> 0,
     tags |-> <<>>, owner |-> <<>>, visited |-> <<>>]

Unset == [set |-> FALSE, types |-> <<>>]

Init ==
    /\ heap \in ScenarioLists
    /\ written = heap
    /\ decls = [i \in 1..Len(heap) |-> i]
    /\ NODE_TYPES = Unset
    /\ pc = "declaring"
    /\ error = NoError
    /\ lastCall = NoCall
    /\ runs = <<>>

\* One more element of the list literal: Type(name, base=base, final=final).
Declare(name, base, final) ==
    /\ pc = "declaring"
    /\ Len(heap) < MaxTypes
    /\ heap' = Append(heap, Type(name, base, final))
    /\ written' = Append(written, Type(name, base, final))
    /\ decls' = Append(decls, Len(heap) + 1)
    /\ UNCHANGED <<NODE_TYPES, pc, error, lastCall, runs>>

\* NODE_TYPES = NodeRegistry([...])
Build ==
    /\ pc = "declaring"
    /\ LET r == NodeRegistry(heap, decls)
       IN  /\ heap' = r.heap
           /\ IF r.err = NoError
              THEN /\ NODE_TYPES' = [set |-> TRUE, types |-> r.types]
                   /\ pc' = "ready"
                   /\ error' = NoError
              ELSE /\ NODE_TYPES' = Unset
                   /\ pc' = "aborted"
                   /\ error' = r.err
    /\ UNCHANGED <<written, decls, lastCall, runs>>

\* NODE_TYPES.get(name)
GetType(name) ==
    /\ pc = "ready"
    /\ LET r == get(NODE_TYPES.types, name)
       IN  lastCall' = [op |-> "get", arg |-> name, err |-> r.err, val |-> r.val,
                        tags |-> <<>>, owner |-> <<>>, visited |-> <<>>]
    /\ UNCHANGED <<heap, written, decls, NODE_TYPES, pc, error, runs>>

\* type_tags() with a counter that outlives the call.
TypeTags_counter_kept ==
    /\ pc = "ready"
    /\ Len(runs) < MaxRuns
    /\ LET start == [visit_start EXCEPT
                        !.next_value = @ + Len(lastCall.tags)]
           r == type_tags_from(heap, NODE_TYPES.types, start)
       IN  /\ lastCall' = [op |-> "type_tags", arg |-> <<>>, err |-> r.err,
                           val |-> 0, tags |-> r.tags, owner |-> r.owner,
                           visited |-> r.visited]
           /\ runs' = Append(runs, [err |-> r.err, tags |-> r.tags])
    /\ UNCHANGED <<heap, written, decls, NODE_TYPES, pc, error>>

\* type_tags()
TypeTags ==
    /\ pc = "ready"
    /\ Len(runs) < MaxRuns
    /\ LET r == type_tags(heap, NODE_TYPES.types)
       IN  /\ lastCall' = [op |-> "type_tags", arg |-> <<>>, err |-> r.err,
                           val |-> 0, tags |-> r.tags, owner |-> r.owner,
                           visited |-> r.visited]
           /\ runs' = Append(runs, [err |-> r.err, tags |-> r.tags])
    /\ UNCHANGED <<heap, written, decls, NODE_TYPES, pc, error>>

Bases == {None} \cup {Str(n) : n \in Names}

Next ==
    \/ \E name \in Names, base \in Bases, final \in BOOLEAN :
           Declare(name, base, final)
    \/ Build
    \/ \E name \in AllNames : GetType(name)
    \/ TypeTags

Spec == Init /\ [][Next]_vars

(***************************************************************************)
(* The AST schema: a RootNode and Nodes with members, the calls of the     *)
(* functions that traverse the resolved hierarchy, reads of the attributes *)
(* base and derived of a Type object at any time of its life, and a second *)
(* NodeRegistry built from the objects of the first.                       *)
(* Member names are never compared, they are plain strings.                *)
(***************************************************************************)
SchemaMembers ==
    { NodeMember("cond", Str(N_Expr)),
      NodeListMember("items", Str(N_Expr)),
      NodeMember("body", Str(N_Stmt)),
      DataMember("value", T_int),
      DataListMember("values", T_int) }

\* members=[...]: no member, one member, or two child members.
MemberLists ==
    {<<>>} \cup {<<m>> : m \in SchemaMembers}
           \cup { <<NodeMember("cond", Str(N_Expr)),
                    NodeListMember("items", Str(N_Expr))>>,
                  <<NodeMember("body", Str(N_Stmt)),
                    NodeMember("cond", Str(N_Expr))>> }

SchemaRoots == {RootNode(N_Node, AstPrefix \o N_Node)}

SchemaExprs ==
    {Node(N_Expr, base, final, members) :
        base \in {None, Str(N_Node)}, final \in BOOLEAN,
        members \in MemberLists}

SchemaStmts ==
    {Node(N_Stmt, base, TRUE, members) :
        base \in {Str(N_Node), Str(N_Expr)}, members \in MemberLists}

\* Every list with at most one root, one Expr and one Stmt, in every order.
SchemaLists ==
    LET All == SchemaRoots \cup SchemaExprs \cup SchemaStmts
    IN  UNION { { f \in [1..k -> All] :
                    \A i, j \in 1..k : i # j => f[i].name # f[j].name } :
                k \in 0..3 }

\* The outcome of a call: the function, its argument, the position of the
\* program when it was called, the error raised and the value returned.
Outcome(op, arg, err, val) ==
    [op |-> op, arg |-> arg, at |-> pc, err |-> err, val |-> val]

NoOutcome ==
    [op |-> "none", arg |-> 0, at |-> "declaring", err |-> NoError,
     val |-> <<>>]

SchemaInit ==
    /\ heap \in SchemaLists
    /\ written = heap
    /\ decls = [i \in 1..Len(heap) |-> i]
    /\ NODE_TYPES = Unset
    /\ pc = "declaring"
    /\ error = NoError
    /\ lastCall = NoOutcome
    /\ runs = <<>>

\* A second NodeRegistry(...) over the objects of the first.
Rebuild ==
    /\ pc = "ready"
    /\ LET r == NodeRegistry(heap, decls)
       IN  /\ heap' = r.heap
           /\ IF r.err = NoError
              THEN /\ NODE_TYPES' = [set |-> TRUE, types |-> r.types]
                   /\ pc' = "rebuilt"
                   /\ error' = NoError
              ELSE /\ NODE_TYPES' = NODE_TYPES
                   /\ pc' = "aborted"
                   /\ error' = r.err
    /\ UNCHANGED <<written, decls, lastCall, runs>>

\* definition.base and definition.derived, read from object i.
ReadType(i) ==
    /\ i \in 1..Len(heap)
    /\ lastCall' = Outcome("read", i, NoError,
                           [base |-> heap[i].base,
                            derived |-> heap[i].derived])
    /\ UNCHANGED <<heap, written, decls, NODE_TYPES, pc, error, runs>>

\* type_tags(), called once the module is loaded.
CallTypeTags ==
    /\ pc \in {"ready", "rebuilt"}
    /\ LET r == type_tags(heap, NODE_TYPES.types)
       IN  lastCall' = Outcome("type_tags", 0, r.err, r.tags)
    /\ UNCHANGED <<heap, written, decls, NODE_TYPES, pc, error, runs>>

\* slot_types() that strips every node of the members that are no children.
CallSlotTypes_dropping_data ==
    /\ pc \in {"ready", "rebuilt"}
    /\ LET r == slot_types(heap, NODE_TYPES.types)
       IN  lastCall' = Outcome("slot_types", 0, r.err, r.slots)
    /\ heap' = [i \in 1..Len(heap) |->
                   [heap[i] EXCEPT !.members = SelectSeq(@, is_child)]]
    /\ UNCHANGED <<written, decls, NODE_TYPES, pc, error, runs>>

\* slot_types()
CallSlotTypes ==
    /\ pc \in {"ready", "rebuilt"}
    /\ LET r == slot_types(heap, NODE_TYPES.types)
       IN  lastCall' = Outcome("slot_types", 0, r.err, r.slots)
    /\ UNCHANGED <<heap, written, decls, NODE_TYPES, pc, error, runs>>

\* list(walk_types())
CallWalkTypes ==
    /\ pc \in {"ready", "rebuilt"}
    /\ LET r == walk_types(heap, NODE_TYPES.types)
       IN  lastCall' = Outcome("walk_types", 0, r.err,
                               IF r.err = NoError THEN r.types ELSE <<>>)
    /\ UNCHANGED <<heap, written, decls, NODE_TYPES, pc, error, runs>>

\* list(walk_concrete_types())
CallWalkConcreteTypes ==
    /\ pc \in {"ready", "rebuilt"}
    /\ LET r == walk_concrete_types(heap, NODE_TYPES.types)
       IN  lastCall' = Outcome("walk_concrete_types", 0, r.err,
                               IF r.err = NoError THEN r.types ELSE <<>>)
    /\ UNCHANGED <<heap, written, decls, NODE_TYPES, pc, error, runs>>

SchemaNext ==
    \/ Build
    \/ Rebuild
    \/ \E i \in 1..3 : ReadType(i)
    \/ CallTypeTags
    \/ CallSlotTypes
    \/ CallWalkTypes
    \/ CallWalkConcreteTypes

SchemaSpec == SchemaInit /\ [][SchemaNext]_vars

(***************************************************************************)
(* The same declaration lists given to the NodeRegistry of either          *)
(* generation of the schema module.  A registry built by scripts/modules   *)
(* leaves its name in lastCall.                                            *)
(***************************************************************************)
\* NODE_TYPES = NodeRegistry([...]) in scripts/modules/codegen/ast.py
BuildScripts ==
    /\ pc = "declaring"
    /\ LET r == ScriptsNodeRegistry(heap, decls)
       IN  /\ heap' = r.heap
           /\ lastCall' = Outcome("NodeRegistry", ScriptsAst, r.err, 0)
           /\ IF r.err = NoError
              THEN /\ NODE_TYPES' = [set |-> TRUE, types |-> r.types]
                   /\ pc' = "ready"
                   /\ error' = NoError
              ELSE /\ NODE_TYPES' = Unset
                   /\ pc' = "aborted"
                   /\ error' = r.err
    /\ UNCHANGED <<written, decls, runs>>

ResolveNext == Build \/ BuildScripts

ResolveSpec == SchemaInit /\ [][ResolveNext]_vars

(***************************************************************************)
(* Tagged unions (scripts/modules/codegen/unions.py with the class Union,  *)
(* utils/codegen/unions.py with the class TaggedUnion).  The objects live  *)
(* in heap; pc names the module whose classes are used.  PyNone is the     *)
(* value None of a doc or a flag; a tag's union is 0 for None, else the    *)
(* object number of the union.  A call that raises leaves the program      *)
(* running: the caller may catch the error.                                *)
(***************************************************************************)
\* Unions declared by one module.
MaxUnions == 1

PyNone == "None"

ScriptsUnions == "scripts/modules/codegen/unions.py"

UtilsUnions == "utils/codegen/unions.py"

TagAttachedError == "Tag already belongs to a different union"

InvalidValueError == "Invalid value for 'which'"

InvalidStorageModeError == "Invalid value for 'which' (set_storage_mode)"

\* Struct.__init__ (UnionMemberStruct.__init__ in utils); the names derived
\* from `name` by camel_to_snake are left out.
Struct(name, members) ==
    [kind |-> "struct", name |-> name, doc |-> PyNone, members |-> members]

\* Alias.__init__ (UnionMemberAlias.__init__ in utils, which has no pass_as)
Alias(name, target) ==
    [kind |-> "alias", name |-> name, doc |-> PyNone, target |-> target,
     pass_as |-> "copy"]

\* Tag.__init__; start_value is NoneInt or Int_(v).
Tag(name, start_value, doc) ==
    [kind |-> "tag", name |-> name, start_value |-> start_value,
     doc |-> doc, union |-> 0]

\* The fields Union.__init__ and TaggedUnion.__init__ assign before the
\* test of tag.union.
UnionFields(module, name, tag, members) ==
    IF module = ScriptsUnions
    THEN [kind |-> "union", name |-> name, tag |-> tag, doc |-> PyNone,
          members |-> members, format |-> PyNone, equality |-> PyNone,
          hash |-> PyNone, doc_mode |-> "member",
          storage_mode |-> "trivial", is_final |-> TRUE]
    ELSE [kind |-> "union", name |-> name, tag |-> tag, doc |-> PyNone,
          members |-> members, format |-> PyNone, equality |-> PyNone,
          hash |-> PyNone, trivial |-> TRUE, doc_mode |-> "member"]

\* A constructor that attaches the tag without looking at tag.union.
Union_init_unchecked(h, module, name, tag, members) ==
    [err |-> NoError,
     heap |-> Append([h EXCEPT ![tag].union = Len(h) + 1],
                     UnionFields(module, name, tag, members))]

\* Union.__init__ and TaggedUnion.__init__: the heap with the new object,
\* or the error raised; the object of a failed call is dropped.
Union_init(h, module, name, tag, members) ==
    IF h[tag].union # 0 THEN [err |-> TagAttachedError, heap |-> h]
    ELSE [err |-> NoError,
          heap |-> Append([h EXCEPT ![tag].union = Len(h) + 1],
                          UnionFields(module, name, tag, members))]

\* set_format_mode without the test of `which`.
set_format_mode_unchecked(union, which) ==
    [err |-> NoError, union |-> [union EXCEPT !.format = which]]

set_format_mode(union, which) ==
    IF which \notin {PyNone, "declare", "define"}
    THEN [err |-> InvalidValueError, union |-> union]
    ELSE [err |-> NoError, union |-> [union EXCEPT !.format = which]]

set_equality_mode(union, which) ==
    IF which \notin {PyNone, "define"}
    THEN [err |-> InvalidValueError, union |-> union]
    ELSE [err |-> NoError, union |-> [union EXCEPT !.equality = which]]

set_hash_mode(union, which) ==
    IF which \notin {PyNone, "define"}
    THEN [err |-> InvalidValueError, union |-> union]
    ELSE [err |-> NoError, union |-> [union EXCEPT !.hash = which]]

set_doc_mode(union, which) ==
    IF which \notin {"member", "tag"}
    THEN [err |-> InvalidValueError, union |-> union]
    ELSE [err |-> NoError, union |-> [union EXCEPT !.doc_mode = which]]

\* Union.set_storage_mode (TaggedUnion has no storage mode).
set_storage_mode(union, which) ==
    IF which \notin {"trivial", "movable"}
    THEN [err |-> InvalidStorageModeError, union |-> union]
    ELSE [err |-> NoError, union |-> [union EXCEPT !.storage_mode = which]]

\* The values a setter is called with: its own, and one of another flag.
FormatInputs == {PyNone, "declare", "define", "tag"}

EqualityInputs == {PyNone, "define", "declare"}

HashInputs == {PyNone, "define", "declare"}

DocModeInputs == {"member", "tag", PyNone}

StorageModeInputs == {"trivial", "movable", PyNone}

Tags == {i \in 1..Len(heap) : heap[i].kind = "tag"}

Unions == {i \in 1..Len(heap) : heap[i].kind = "union"}

\* The outcome of a constructor or setter call.
UnionCall(op, arg, which, err) ==
    [op |-> op, arg |-> arg, which |-> which, err |-> err]

\* Two tags are declared, one without and one with a doc.
UnionInit ==
    /\ heap = <<Tag("TokenDataType", NoneInt, PyNone),
               Tag("BytecodeOp", Int_(1), "doc")>>
    /\ written = <<>>
    /\ decls = <<>>
    /\ NODE_TYPES = Unset
    /\ pc \in {ScriptsUnions, UtilsUnions}
    /\ error = NoError
    /\ lastCall = UnionCall("none", 0, PyNone, NoError)
    /\ runs = <<>>

\* Union(name, tag) or TaggedUnion(name, tag)
NewUnion(tag) ==
    /\ tag \in Tags
    /\ Cardinality(Unions) < MaxUnions \/ heap[tag].union # 0
    /\ LET r == Union_init(heap, pc, "TokenData", tag, <<>>)
       IN  /\ heap' = r.heap
           /\ lastCall' = UnionCall("Union", tag, PyNone, r.err)
    /\ UNCHANGED <<written, decls, NODE_TYPES, pc, error, runs>>

\* The call union.set_..._mode(which) with outcome r.
Setter(op, u, which, r) ==
    /\ heap' = [heap EXCEPT ![u] = r.union]
    /\ lastCall' = UnionCall(op, u, which, r.err)
    /\ UNCHANGED <<written, decls, NODE_TYPES, pc, error, runs>>

SetFormatMode(u, which) ==
    /\ u \in Unions
    /\ Setter("set_format_mode", u, which, set_format_mode(heap[u], which))

SetEqualityMode(u, which) ==
    /\ u \in Unions
    /\ Setter("set_equality_mode", u, which,
              set_equality_mode(heap[u], which))

SetHashMode(u, which) ==
    /\ u \in Unions
    /\ Setter("set_hash_mode", u, which, set_hash_mode(heap[u], which))

SetDocMode(u, which) ==
    /\ u \in Unions
    /\ Setter("set_doc_mode", u, which, set_doc_mode(heap[u], which))

SetStorageMode(u, which) ==
    /\ u \in Unions
    /\ pc = ScriptsUnions
    /\ Setter("set_storage_mode", u, which,
              set_storage_mode(heap[u], which))

\* The object numbers of the two tags and of the unions.
UnionObjects == 1..(2 + MaxUnions)

UnionNext ==
    \/ \E tag \in UnionObjects : NewUnion(tag)
    \/ \E u \in UnionObjects :
           \/ \E which \in FormatInputs : SetFormatMode(u, which)
           \/ \E which \in EqualityInputs : SetEqualityMode(u, which)
           \/ \E which \in HashInputs : SetHashMode(u, which)
           \/ \E which \in DocModeInputs : SetDocMode(u, which)
           \/ \E which \in StorageModeInputs : SetStorageMode(u, which)

UnionSpec == UnionInit /\ [][UnionNext]_vars

(***************************************************************************)
(* Unions declared with variants: the constructor is called with a list of *)
(* Struct and Alias objects.  An Alias names its target type by a string;  *)
(* "TokenData" is the name of the union under construction.  Every union   *)
(* is declared with a tag of its own.                                      *)
(***************************************************************************)
\* Variants of one union.
MaxVariants == 2

VariantUniverse ==
    {Struct("Integer", <<>>), Struct("Float", <<>>), Alias("Integer", "i64"),
     Alias("Float", "f64"), Alias("Nested", "TokenData")}

VariantLists == UNION {[1..n -> VariantUniverse] : n \in 0..MaxVariants}

\* Union(name, tag, members=[...]) or TaggedUnion(name, tag, members=[...])
NewUnionOf(tag, members) ==
    /\ tag \in Tags
    /\ heap[tag].union = 0
    /\ Cardinality(Unions) < MaxUnions
    /\ LET r == Union_init(heap, pc, "TokenData", tag, members)
       IN  /\ heap' = r.heap
           /\ lastCall' = UnionCall("Union", tag, members, r.err)
    /\ UNCHANGED <<written, decls, NODE_TYPES, pc, error, runs>>

VariantNext ==
    \E tag \in UnionObjects : \E members \in VariantLists :
        NewUnionOf(tag, members)

VariantSpec == UnionInit /\ [][VariantNext]_vars

(***************************************************************************)
(* Type objects bound to variables before the list literal: a base may be  *)
(* given as an object made earlier, and the list given to NodeRegistry     *)
(* holds any of the objects in any order.  FirstExpr is a type name that   *)
(* reads like the First label of Expr.                                     *)
(***************************************************************************)
\* Type objects made before NodeRegistry is called.
MaxObjects == 3

\* The constructor calls that can make object number i.
ObjectChoices(i) ==
    {Type(N_Node, None, FALSE)}
        \cup {Type(N_Expr, base, FALSE) :
                 base \in {Str(N_Node)} \cup {Obj(j) : j \in 1..(i - 1)}}
        \cup {Type(N_FirstExpr, base, TRUE) :
                 base \in {Str(N_Expr)} \cup {Obj(j) : j \in 1..(i - 1)}}

ObjectHeaps ==
    UNION { {h \in [1..n -> UNION {ObjectChoices(i) : i \in 1..n}] :
                \A i \in 1..n : h[i] \in ObjectChoices(i)} :
            n \in 0..MaxObjects }

\* The lists of distinct objects out of n.
ObjectLists(n) ==
    UNION { {l \in [1..k -> 1..n] :
                \A i, j \in 1..k : i # j => l[i] # l[j]} : k \in 0..n }

ObjectInit ==
    /\ heap \in ObjectHeaps
    /\ written = heap
    /\ decls \in ObjectLists(Len(heap))
    /\ NODE_TYPES = Unset
    /\ pc = "declaring"
    /\ error = NoError
    /\ lastCall = NoCall
    /\ runs = <<>>

ObjectNext == Build \/ TypeTags

ObjectSpec == ObjectInit /\ [][ObjectNext]_vars

(***************************************************************************)
(* A schema module that declares a Tag with a start value next to its node *)
(* types (scripts/modules/codegen/ast.py imports Tag from unions.py).  The *)
(* tag is the last object of the heap and no element of the list given to  *)
(* NodeRegistry.                                                           *)
(***************************************************************************)
StartValues == {NoneInt, Int_(1), Int_(5)}

StartInit ==
    /\ heap \in {types \o <<Tag("AstNodeType", start_value, PyNone)>> :
                    types \in ScenarioLists, start_value \in StartValues}
    /\ written = heap
    /\ decls = [i \in 1..(Len(heap) - 1) |-> i]
    /\ NODE_TYPES = Unset
    /\ pc = "declaring"
    /\ error = NoError
    /\ lastCall = NoCall
    /\ runs = <<>>

StartNext == Build \/ TypeTags

StartSpec == StartInit /\ [][StartNext]_vars

(***************************************************************************)
(* The VM object hierarchy (support/codegen/objects.py).  A Node of that   *)
(* module is written TreeNode here.  The children of a node are objects    *)
(* made before it, so one object can be the child of two nodes or twice    *)
(* the child of one.  id_ and parent are 0 for None.                       *)
(***************************************************************************)
\* Node objects made before init_tree is called.
MaxNodes == 4

NameDefinedError == "Node name already defined"

NotLeafError == "Type is not a leaf"

NotAllocatedError == "Type id for leaf type was not allocated"

\* Node.__init__
TreeNode(name, children) ==
    [id_ |-> 0, parent |-> 0, name |-> name, children |-> children]

\* Node.is_leaf
is_leaf(node) == Len(node.children) = 0

\* A test of the lookup that never finds the name.
name_defined_never(lookup, name) == FALSE

\* node.name in lookup
name_defined(lookup, name) == HasName(lookup, name)

\* visit(node, parent) of init_tree; st carries the heap, the nonlocal
\* next_id, the dict lookup and the raised error.
RECURSIVE tree_visit(_, _, _)
RECURSIVE tree_visit_children(_, _, _, _)
tree_visit(st, node, parent) ==
    LET h == [st.heap EXCEPT ![node].parent = parent]
        name == h[node].name
    IN  IF name_defined(st.lookup, name)
        THEN [st EXCEPT !.heap = h, !.err = NameDefinedError]
        ELSE LET entered == [st EXCEPT !.heap = h,
                                       !.lookup = SetItem(@, name, node)]
             IN  IF is_leaf(h[node])
                 THEN [entered EXCEPT !.heap[node].id_ = st.next_id,
                                      !.next_id = @ + 1]
                 ELSE tree_visit_children(entered, node,
                                          h[node].children, 1)

\* The loop `for child in node.children` of visit, from the i-th child on.
tree_visit_children(st, node, children, i) ==
    IF i > Len(children) THEN st
    ELSE LET r == tree_visit(st, children[i], node)
         IN  IF r.err # NoError THEN r
             ELSE tree_visit_children(r, node, children, i + 1)

\* init_tree(root): the heap it leaves, the lookup and the error raised.
init_tree(h, root) ==
    tree_visit([heap |-> h, next_id |-> 1, lookup |-> <<>>,
                err |-> NoError], root, 0)

\* Node.id
id(h, node) ==
    IF ~is_leaf(h[node]) THEN [err |-> NotLeafError, val |-> 0]
    ELSE IF h[node].id_ = 0 THEN [err |-> NotAllocatedError, val |-> 0]
    ELSE [err |-> NoError, val |-> h[node].id_]

\* Node.id_range: the pair (lo, hi), or the error of a leaf below.
RECURSIVE id_range(_, _)
RECURSIVE id_range_children(_, _, _, _, _)
id_range(h, node) ==
    IF is_leaf(h[node])
    THEN LET r == id(h, node)
         IN  [err |-> r.err, lo |-> r.val, hi |-> r.val]
    ELSE id_range_children(h, h[node].children, 1, NoneInt, NoneInt)

id_range_children(h, children, i, lo, hi) ==
    IF i > Len(children) THEN [err |-> NoError, lo |-> lo.v, hi |-> hi.v]
    ELSE LET r == id_range(h, children[i])
         IN  IF r.err # NoError THEN r
             ELSE id_range_children(
                      h, children, i + 1,
                      IF lo.isNone THEN Int_(r.lo) ELSE Int_(min(r.lo, lo.v)),
                      IF hi.isNone THEN Int_(r.hi) ELSE Int_(max(r.hi, hi.v)))

NodeNames ==
    <<"Value", "Integer", "HeapInteger", "SmallInteger", "Null", "Boolean">>

\* The lists of distinct objects among the first n, in the order they were
\* made or in the reverse order, and the first object twice.
ChildLists(n) ==
    LET member(S) == [x \in 1..n |-> x \in S]
        ascending(S) ==
            SelectSeq([k \in 1..n |-> k], LAMBDA x : member(S)[x])
        descending(S) ==
            SelectSeq([k \in 1..n |-> n + 1 - k], LAMBDA x : member(S)[x])
    IN  {ascending(S) : S \in SUBSET (1..n)}
            \cup {descending(S) : S \in SUBSET (1..n)}
            \cup (IF n >= 1 THEN {<<1, 1>>} ELSE {})

\* The heaps of exactly n objects, each with a name of its own.
RECURSIVE HeapsOf(_)
HeapsOf(n) ==
    IF n = 0 THEN {<<>>}
    ELSE LET made == {TreeNode(NodeNames[n], children) :
                         children \in ChildLists(n - 1)}
         IN  {Append(h, node) : h \in HeapsOf(n - 1), node \in made}

TreeCall(op, arg, err, val) == [op |-> op, arg |-> arg, err |-> err, val |-> val]

\* The objects exist, every name its own or one object with the name of
\* the first; the last one made is the root handed to init_tree.
TreeInit ==
    /\ \E n \in 1..MaxNodes : \E same \in 1..n : \E h \in HeapsOf(n) :
           heap = [h EXCEPT ![same].name = NodeNames[1]]
    /\ written = heap
    /\ decls = <<>>
    /\ NODE_TYPES = Unset
    /\ pc = "declaring"
    /\ error = NoError
    /\ lastCall = TreeCall("none", 0, NoError, <<>>)
    /\ runs = <<>>

\* (HIERARCHY, HIERARCHY_LOOKUP) = init_tree(root)
InitTree ==
    /\ pc = "declaring"
    /\ LET r == init_tree(heap, Len(heap))
       IN  /\ heap' = r.heap
           /\ lastCall' = TreeCall("init_tree", Len(heap), r.err, r.lookup)
           /\ pc' = IF r.err = NoError THEN "ready" ELSE "aborted"
           /\ error' = r.err
    /\ UNCHANGED <<written, decls, NODE_TYPES, runs>>

\* node.id_range, read of any object once the module is loaded
ReadIdRange(node) ==
    /\ pc = "ready"
    /\ node \in 1..Len(heap)
    /\ LET r == id_range(heap, node)
       IN  lastCall' = TreeCall("id_range", node, r.err, <<r.lo, r.hi>>)
    /\ UNCHANGED <<heap, written, decls, NODE_TYPES, pc, error, runs>>

TreeNext ==
    \/ InitTree
    \/ \E node \in 1..MaxNodes : ReadIdRange(node)

TreeSpec == TreeInit /\ [][TreeNext]_vars

(***************************************************************************)
(* Vocabulary of the properties.  The hierarchy is read off the resolved   *)
(* base references, not off the derived lists the traversal follows.       *)
(***************************************************************************)
Objects == 1..Len(heap)

Registered == {NODE_TYPES.types[i].val : i \in 1..Len(NODE_TYPES.types)}

\* c is t or reaches t within n steps along base.
RECURSIVE ReachesBase(_, _, _)
ReachesBase(c, t, n) ==
    \/ c = t
    \/ /\ n > 0
       /\ heap[c].base.kind = "obj"
       /\ ReachesBase(heap[c].base.ref, t, n - 1)

\* c is t itself or a transitive descendant of t.
IsOrDerivesFrom(c, t) == ReachesBase(c, t, Len(heap))

Root == Lookup(NODE_TYPES.types, N_Node)

\* The types reachable from the root, the concrete ones among them.
FromRoot == {c \in Objects : IsOrDerivesFrom(c, Root)}

ConcreteFromRoot == {c \in FromRoot : heap[c].final}

ChildrenOf(t) ==
    {c \in Objects : heap[c].base.kind = "obj" /\ heap[c].base.ref = t}

\* The latest call was type_tags() and it returned a table.
TagsReturned ==
    /\ pc = "ready"
    /\ lastCall.op = "type_tags"
    /\ lastCall.err = NoError

\* The positions of the table written for type c by the given append.
EntriesOf(c, kind) ==
    {k \in 1..Len(lastCall.owner) : lastCall.owner[k] = <<c, kind>>}

ValueOf(c, kind) == lastCall.tags[CHOOSE k \in EntriesOf(c, kind) : TRUE][2]

TagOf(c) == ValueOf(c, "tag")

FirstOf(t) == IF heap[t].final THEN TagOf(t) ELSE ValueOf(t, "first")

LastOf(t) == IF heap[t].final THEN TagOf(t) ELSE ValueOf(t, "last")

HasEntries(t) ==
    IF heap[t].final THEN EntriesOf(t, "tag") # {}
    ELSE EntriesOf(t, "first") # {} /\ EntriesOf(t, "last") # {}

(***************************************************************************)
(* C1.  Whenever type_tags returns a table: for every type T reachable     *)
(* from the root and every concrete type C reachable from the root, the    *)
(* tag of C lies in [first(T), last(T)] exactly if C is T or a transitive  *)
(* descendant of T.                                                        *)
(***************************************************************************)
C1_RangeDecidesIsA ==
    TagsReturned =>
        \A t \in FromRoot : \A c \in ConcreteFromRoot :
            /\ HasEntries(t)
            /\ HasEntries(c)
            /\ (FirstOf(t) <= TagOf(c) /\ TagOf(c) <= LastOf(t))
                   <=> IsOrDerivesFrom(c, t)

\* A table for a hierarchy with two abstract types below the root that
\* have concrete descendants, one with a concrete type behind its range
\* and one with a concrete type before its range.
C1_Witness ==
    /\ TagsReturned
    /\ \E t, u \in FromRoot \ {Root} : \E c, d, e \in ConcreteFromRoot :
           /\ ~heap[t].final /\ ~heap[u].final
           /\ IsOrDerivesFrom(c, t)
           /\ ~IsOrDerivesFrom(d, t) /\ TagOf(d) > LastOf(t)
           /\ IsOrDerivesFrom(d, u)
           /\ ~IsOrDerivesFrom(e, u) /\ TagOf(e) < FirstOf(u)


(***************************************************************************)
(* C2.  For every abstract type T of a returned table: First<T> is the     *)
(* minimum and Last<T> the maximum tag of T's concrete descendants, the    *)
(* tags of T's concrete descendants are exactly the integers from First<T> *)
(* to Last<T>, and the ranges of two distinct children of T are disjoint.  *)
(***************************************************************************)
ConcreteUnder(t) == {c \in Objects : heap[c].final /\ IsOrDerivesFrom(c, t)}

Minimum(V) == CHOOSE v \in V : \A w \in V : v <= w

Maximum(V) == CHOOSE v \in V : \A w \in V : v >= w

C2_RangesExact ==
    TagsReturned =>
        \A t \in Objects : EntriesOf(t, "first") # {} =>
            LET D == ConcreteUnder(t)
                V == {TagOf(c) : c \in D}
            IN  /\ D # {}
                /\ \A c \in D : HasEntries(c)
                /\ HasEntries(t)
                /\ FirstOf(t) = Minimum(V)
                /\ LastOf(t) = Maximum(V)
                /\ V = FirstOf(t)..LastOf(t)
                /\ \A a, b \in ChildrenOf(t) :
                       a # b => /\ HasEntries(a) /\ HasEntries(b)
                                /\ \/ LastOf(a) < FirstOf(b)
                                   \/ LastOf(b) < FirstOf(a)

\* A table with an abstract type that has two children, one of them an
\* abstract type with two concrete descendants.
C2_Witness ==
    /\ TagsReturned
    /\ \E t \in Objects : \E a, b \in ChildrenOf(t) :
           /\ EntriesOf(t, "first") # {}
           /\ a # b
           /\ ~heap[a].final
           /\ Cardinality(ConcreteUnder(a)) >= 2

(***************************************************************************)
(* C3.  In a returned table the tags of the concrete types are unique      *)
(* positive integers, exactly 1..N for the N concrete types reachable from *)
(* the root; they increase strictly along the depth-first traversal that   *)
(* takes each type's children in ascending name order; and a concrete type *)
(* has a tag exactly if it is reachable from the root.                     *)
(***************************************************************************)
\* The children of t by base reference, in ascending order of name.
ChildrenByName(t) ==
    LET C == ChildrenOf(t)
    IN  CHOOSE s \in [1..Cardinality(C) -> C] :
            \A i, j \in 1..Cardinality(C) :
                i < j => StrLess(heap[s[i]].name, heap[s[j]].name)

\* The concrete types below t in depth-first order.
RECURSIVE ConcreteInOrder(_)
RECURSIVE ConcreteInOrderOf(_, _)
ConcreteInOrder(t) ==
    IF heap[t].final THEN <<t>> ELSE ConcreteInOrderOf(ChildrenByName(t), 1)

ConcreteInOrderOf(s, i) ==
    IF i > Len(s) THEN <<>>
    ELSE ConcreteInOrder(s[i]) \o ConcreteInOrderOf(s, i + 1)

C3_TagsDenseInTraversalOrder ==
    TagsReturned =>
        LET N == Cardinality(ConcreteFromRoot)
            order == ConcreteInOrder(Root)
        IN  /\ \A c \in Objects :
                   heap[c].final =>
                       /\ EntriesOf(c, "tag") # {} <=> c \in FromRoot
                       /\ Cardinality(EntriesOf(c, "tag")) <= 1
            /\ \A k \in 1..Len(lastCall.owner) :
                   lastCall.owner[k][2] = "tag" =>
                       heap[lastCall.owner[k][1]].final
            /\ \A c, d \in ConcreteFromRoot : c # d => TagOf(c) # TagOf(d)
            /\ {TagOf(c) : c \in ConcreteFromRoot} = 1..N
            /\ {order[k] : k \in 1..Len(order)} = ConcreteFromRoot
            /\ \A i, j \in 1..Len(order) :
                   i < j => TagOf(order[i]) < TagOf(order[j])

\* A table with three tags or more in which a type declared later has the
\* smaller tag.
C3_Witness ==
    /\ TagsReturned
    /\ Cardinality(ConcreteFromRoot) >= 3
    /\ \E c, d \in ConcreteFromRoot : c < d /\ TagOf(d) < TagOf(c)

(***************************************************************************)
(* Vocabulary of the registry properties, over the list as written.        *)
(***************************************************************************)
Listed == {decls[i] : i \in 1..Len(decls)}

\* No two elements of the list have the same name.
NamesDistinct ==
    \A i, j \in 1..Len(decls) :
        i # j => written[decls[i]].name # written[decls[j]].name

\* Every base given as a string is the name of an element of the list.
BasesKnown ==
    \A d \in Listed :
        written[d].base.kind = "str" =>
            \E e \in Listed : written[e].name = written[d].base.name

\* Some element of the list names, as its base, an element with final = true.
DerivesFromFinal ==
    \E d, e \in Listed :
        /\ written[d].base.kind = "str"
        /\ written[e].name = written[d].base.name
        /\ written[e].final

Constructed == pc # "declaring"

\* The base of some registered type has been resolved to a type with
\* final = true.
ResolvedBaseIsFinal ==
    \E d \in Listed :
        heap[d].base.kind = "obj" /\ heap[heap[d].base.ref].final

(***************************************************************************)
(* C4, as stated.  Whenever the base of some registered type is a type     *)
(* with final = true, resolution fails with FinalDerivationError.          *)
(***************************************************************************)
C4_AsStated ==
    (Constructed /\ ResolvedBaseIsFinal) =>
        (pc = "aborted" /\ error = FinalDerivationError)

(***************************************************************************)
(* C4, amended.  Whenever the base of some registered type is, or names,   *)
(* a type with final = true, resolution fails and no tag is ever computed; *)
(* the failure is FinalDerivationError if every string base of the list    *)
(* names a registered type, at any depth and in any declaration order, and *)
(* UnknownTypeError otherwise.                                             *)
(***************************************************************************)
C4_FinalDerivationFails ==
    (Constructed /\ NamesDistinct /\ DerivesFromFinal) =>
        /\ pc = "aborted"
        /\ NODE_TYPES = Unset
        /\ runs = <<>>
        /\ lastCall = NoCall
        /\ error = IF BasesKnown THEN FinalDerivationError
                   ELSE UnknownTypeError

\* A failure for a final base that has a base itself and is declared behind
\* the type that derives from it.
C4_Witness ==
    /\ pc = "aborted"
    /\ error = FinalDerivationError
    /\ \E d, e \in Listed :
           /\ d < e
           /\ written[d].base.kind = "str"
           /\ written[e].name = written[d].base.name
           /\ written[e].final
           /\ written[e].base.kind = "str"

(***************************************************************************)
(* C5.  A list with two types of the same name fails with                  *)
(* DuplicateNameError, whichever comes first and whatever their other      *)
(* attributes are; in a registry that was built, every name maps to        *)
(* exactly one type, and that type's name is the name.                     *)
(***************************************************************************)
C5_DuplicateNames ==
    /\ (Constructed /\ ~NamesDistinct) =>
           (pc = "aborted" /\ error = DuplicateNameError
               /\ NODE_TYPES = Unset)
    /\ pc = "ready" =>
           LET types == NODE_TYPES.types
           IN  /\ \A i, j \in 1..Len(types) :
                      i # j => types[i].key # types[j].key
               /\ \A i \in 1..Len(types) :
                      heap[types[i].val].name = types[i].key
               /\ Registered = Listed
               /\ Len(types) = Len(decls)

\* A failure for two types of one name that differ in final and in base.
C5_Witness ==
    /\ pc = "aborted"
    /\ error = DuplicateNameError
    /\ \E i, j \in 1..Len(decls) :
           /\ i < j
           /\ written[decls[i]].name = written[decls[j]].name
           /\ written[decls[i]].final # written[decls[j]].final
           /\ written[decls[i]].base # written[decls[j]].base

(***************************************************************************)
(* C6.  get(name) returns the type registered under name and fails with    *)
(* UnknownTypeError when there is none; resolution fails with              *)
(* UnknownTypeError when a string base names no registered type; and a     *)
(* string base resolves to the type of that name, also when that type is   *)
(* declared later in the list.                                             *)
(***************************************************************************)
C6_GetAndResolve ==
    /\ (pc = "ready" /\ lastCall.op = "get") =>
           IF \E d \in Listed : written[d].name = lastCall.arg
           THEN /\ lastCall.err = NoError
                /\ lastCall.val \in Listed
                /\ written[lastCall.val].name = lastCall.arg
           ELSE lastCall.err = UnknownTypeError
    /\ (Constructed /\ NamesDistinct /\ ~BasesKnown) =>
           (pc = "aborted" /\ error = UnknownTypeError)
    /\ pc = "ready" =>
           \A d \in Listed :
               IF written[d].base.kind = "str"
               THEN /\ heap[d].base.kind = "obj"
                    /\ heap[d].base.ref \in Listed
                    /\ written[heap[d].base.ref].name = written[d].base.name
               ELSE heap[d].base = written[d].base

\* A get of a name that is not registered, in a registry with a type whose
\* base is declared behind it.
C6_Witness ==
    /\ pc = "ready"
    /\ lastCall.op = "get"
    /\ lastCall.err = UnknownTypeError
    /\ \E d \in Listed : heap[d].base.kind = "obj" /\ heap[d].base.ref > d

(***************************************************************************)
(* C7.  After a successful resolution of freshly declared types, for every *)
(* registered type T the list T.derived holds exactly the registered types *)
(* whose resolved base is T, each once, in ascending order of name; so     *)
(* every registered type with a base is in exactly one derived list.       *)
(***************************************************************************)
Elements(s) == {s[k] : k \in 1..Len(s)}

C7_DerivedLists ==
    pc = "ready" =>
        /\ \A t \in Registered :
               LET d == heap[t].derived
               IN  /\ Elements(d) = {c \in Registered : heap[c].base = Obj(t)}
                   /\ Cardinality(Elements(d)) = Len(d)
                   /\ \A i, j \in 1..Len(d) :
                          i < j => StrLess(heap[d[i]].name, heap[d[j]].name)
        /\ \A c \in Registered :
               heap[c].base # None =>
                   Cardinality({t \in Objects : c \in Elements(heap[t].derived)})
                       = 1

\* A registry with a type whose children are declared in descending order
\* of name.
C7_Witness ==
    /\ pc = "ready"
    /\ \E t \in Registered :
           /\ Len(heap[t].derived) >= 2
           /\ heap[t].derived[1] > heap[t].derived[2]

(***************************************************************************)
(* C8.  Whenever the traversal of type_tags visits an abstract type with   *)
(* no children, the call fails with EmptyHierarchyError and returns no     *)
(* table; so it does for a visited abstract type, not part of a cycle,     *)
(* all of whose descendants are abstract.                                  *)
(***************************************************************************)
Visited == Elements(lastCall.visited)

OnCycle(t) ==
    /\ heap[t].base.kind = "obj"
    /\ ReachesBase(heap[t].base.ref, t, Len(heap))

AllAbstractBelow(t) ==
    \A c \in Objects : IsOrDerivesFrom(c, t) => ~heap[c].final

C8_EmptyHierarchy ==
    (pc = "ready" /\ lastCall.op = "type_tags") =>
        \A t \in Visited :
            (\/ ~heap[t].final /\ ChildrenOf(t) = {}
             \/ AllAbstractBelow(t) /\ ~OnCycle(t)) =>
                /\ lastCall.err = EmptyHierarchyError
                /\ lastCall.tags = <<>>
                /\ runs[Len(runs)].err = EmptyHierarchyError
                /\ runs[Len(runs)].tags = <<>>

\* A failing call that visited a concrete type first, and then, below the
\* root, an abstract type with no children whose base is abstract too.
C8_Witness ==
    /\ pc = "ready"
    /\ lastCall.op = "type_tags"
    /\ lastCall.err = EmptyHierarchyError
    /\ \E t, c \in Visited :
           /\ ~heap[t].final /\ ChildrenOf(t) = {}
           /\ t # Root
           /\ heap[c].final

(***************************************************************************)
(* C9.  For the hierarchy Node (abstract) with the children Expr           *)
(* (abstract; children Literal and Call, final) and Stmt (abstract; child  *)
(* ExprStmt, final), declared in any order, type_tags returns Call=1,      *)
(* Literal=2, FirstExpr=1, LastExpr=2, ExprStmt=3, FirstStmt=3,            *)
(* LastStmt=3 in this order, followed by the range of the root,            *)
(* FirstNode=1, LastNode=3.                                                *)
(***************************************************************************)
IsScenario ==
    /\ Len(written) = Cardinality(ScenarioTypes)
    /\ Elements(written) = ScenarioTypes

ScenarioTags ==
    << <<N_Call, 1>>, <<N_Literal, 2>>,
       <<FirstPrefix \o N_Expr, 1>>, <<LastPrefix \o N_Expr, 2>>,
       <<N_ExprStmt, 3>>,
       <<FirstPrefix \o N_Stmt, 3>>, <<LastPrefix \o N_Stmt, 3>> >>

ScenarioRootTags ==
    << <<FirstPrefix \o N_Node, 1>>, <<LastPrefix \o N_Node, 3>> >>

C9_Scenario ==
    (IsScenario /\ Constructed) =>
        /\ pc = "ready"
        /\ lastCall.op = "type_tags" =>
               /\ lastCall.err = NoError
               /\ SubSeq(lastCall.tags, 1, Len(ScenarioTags)) = ScenarioTags
               /\ lastCall.tags = ScenarioTags \o ScenarioRootTags

\* The table of the scenario, declared with Literal before Call and the
\* root last.
C9_Witness ==
    /\ IsScenario
    /\ TagsReturned
    /\ written[Len(written)].name = N_Node
    /\ \E i, j \in 1..Len(written) :
           i < j /\ written[i].name = N_Literal /\ written[j].name = N_Call

SlotsReturned ==
    /\ pc \in {"ready", "rebuilt"}
    /\ lastCall.op = "slot_types"
    /\ lastCall.at = pc
    /\ lastCall.err = NoError

\* The members of the types reachable from the root; the Node and NodeList
\* members among them.
MembersFromRoot ==
    UNION { {<<t, k>> : k \in 1..Len(heap[t].members)} : t \in FromRoot }

ChildMembers == {m \in MembersFromRoot : is_child(MemberAt(heap, m))}

\* The node type a child member references; its rendered type name.
TargetOf(m) == MemberAt(heap, m).type.ref

SlotTypeOf(m) == cpp_type(heap, MemberAt(heap, m))

\* The positions of the returned list whose entry satisfies the test.
EntriesWith(Test(_)) ==
    {k \in 1..Len(lastCall.val) : Test(lastCall.val[k])}

(***************************************************************************)
(* C11 as stated.  slot_types returns exactly one entry for each distinct  *)
(* node type that is the target of a Node or NodeList member of a type     *)
(* reachable from the root, and no entry for a Data or DataList member.    *)
(***************************************************************************)
C11_AsStated ==
    SlotsReturned =>
        /\ \A k \in 1..Len(lastCall.val) : lastCall.val[k] \in ChildMembers
        /\ \A n \in {TargetOf(m) : m \in ChildMembers} :
               LET References(e) == TargetOf(e) = n
               IN  Cardinality(EntriesWith(References)) = 1

(***************************************************************************)
(* C11.  slot_types returns exactly one entry for each distinct rendered   *)
(* slot type (AstPtr<T> of a Node member, AstNodeList<T> of a NodeList     *)
(* member) among the members of the types reachable from the root: members *)
(* with the same rendered type collapse to one entry, however many types   *)
(* declare them, and no entry is a Data or DataList member.                *)
(***************************************************************************)
C11_OneEntryPerSlotType ==
    SlotsReturned =>
        /\ \A k \in 1..Len(lastCall.val) : lastCall.val[k] \in ChildMembers
        /\ \A c \in {SlotTypeOf(m) : m \in ChildMembers} :
               LET Renders(e) == SlotTypeOf(e) = c
               IN  Cardinality(EntriesWith(Renders)) = 1

\* Two types reachable from the root declare a Node member of the same
\* node type, and one of them a NodeList member of that node type too.
C11_Witness ==
    /\ SlotsReturned
    /\ \E m, n, l \in ChildMembers :
           /\ m[1] # n[1]
           /\ SlotTypeOf(m) = SlotTypeOf(n)
           /\ TargetOf(l) = TargetOf(m)
           /\ MemberAt(heap, l).kind = "node_list"
           /\ MemberAt(heap, m).kind = "node"

(***************************************************************************)
(* C12.  The list slot_types returns is sorted ascending by rendered type  *)
(* name, and a registry built from the same declarations in any other      *)
(* order returns slot types with the same rendered type names in the same  *)
(* order.                                                                  *)
(***************************************************************************)
\* The rendered type names slot_types returns for the declarations as
\* written, listed in the order p; <<"error">> if a call raises.
SlotTypeNamesInOrder(p) ==
    LET listed == [i \in 1..Len(written) |-> written[p[i]]]
        registry == NodeRegistry(listed, [i \in 1..Len(listed) |-> i])
        r == slot_types(registry.heap, registry.types)
    IN  IF registry.err # NoError \/ r.err # NoError THEN <<"error">>
        ELSE [k \in 1..Len(r.slots) |->
                 cpp_type(registry.heap, MemberAt(registry.heap, r.slots[k]))]

C12_SortedAndOrderIndependent ==
    (SlotsReturned /\ pc = "ready") =>
        /\ \A k \in 1..(Len(lastCall.val) - 1) :
               ~StrLess(SlotTypeOf(lastCall.val[k + 1]),
                        SlotTypeOf(lastCall.val[k]))
        /\ \A p \in Permutations(1..Len(written)) :
               SlotTypeNamesInOrder(p) =
                   [k \in 1..Len(lastCall.val) |-> SlotTypeOf(lastCall.val[k])]

\* Three declarations with the root not first; a node declares a member
\* whose rendered type sorts before that of the member declared before it.
C12_Witness ==
    /\ SlotsReturned /\ pc = "ready"
    /\ Len(written) = 3
    /\ written[1].name # N_Node
    /\ \E k \in 1..(Len(lastCall.val) - 1) :
           /\ lastCall.val[k][1] = lastCall.val[k + 1][1]
           /\ lastCall.val[k][2] > lastCall.val[k + 1][2]

(***************************************************************************)
(* C15.  Reading the base or the derived list of a type before resolution  *)
(* has completed fails with NotFinishedError.                              *)
(***************************************************************************)
NotFinishedError == "NotFinishedError"

C15_NotFinishedGuard ==
    (lastCall.op = "read" /\ lastCall.at = "declaring") =>
        lastCall.err = NotFinishedError

(***************************************************************************)
(* C16.  A second registry built from the objects of the first leaves      *)
(* every base and every derived list as the first resolution left them.    *)
(***************************************************************************)
\* The objects as the first NodeRegistry(...) leaves them.
ResolvedOnce == NodeRegistry(written, decls).heap

C16_Idempotent ==
    pc = "rebuilt" =>
        \A i \in 1..Len(heap) :
            /\ heap[i].base = ResolvedOnce[i].base
            /\ heap[i].derived = ResolvedOnce[i].derived

C17_FailFast ==
    /\ pc = "aborted" =>
           /\ NODE_TYPES = Unset
           /\ error # NoError
           /\ error = DuplicateNameError => heap = written
           /\ error = UnknownTypeError =>
                  \E k \in 1..Len(decls) :
                      /\ written[decls[k]].base.kind = "str"
                      /\ \A e \in Listed :
                             written[e].name # written[decls[k]].base.name
                      /\ \A j \in 1..(k - 1) : heap[decls[j]].base.kind # "str"
                      /\ \A j \in k..Len(decls) :
                             heap[decls[j]].base = written[decls[j]].base
                      /\ \A t \in Objects : heap[t].derived = <<>>
           /\ error = FinalDerivationError =>
                  \E k \in 1..Len(decls) :
                      /\ heap[decls[k]].base.kind = "obj"
                      /\ heap[heap[decls[k]].base.ref].final
                      /\ \A j \in 1..(k - 1) :
                             heap[decls[j]].base.kind = "obj" =>
                                 /\ ~heap[heap[decls[j]].base.ref].final
                                 /\ decls[j] \in
                                        Elements(heap[heap[decls[j]].base.ref].derived)
                      /\ \A j \in k..Len(decls) : \A t \in Objects :
                             decls[j] \notin Elements(heap[t].derived)
    /\ (lastCall.op = "type_tags" /\ lastCall.err # NoError) =>
           /\ lastCall.tags = <<>>
           /\ runs[Len(runs)].tags = <<>>
           /\ lastCall.err = EmptyHierarchyError =>
                  LET t == lastCall.visited[Len(lastCall.visited)]
                  IN  ~heap[t].final /\ heap[t].derived = <<>>

\* type_tags raises after it has appended the tag of a concrete type.
C17_Witness ==
    /\ lastCall.op = "type_tags"
    /\ lastCall.err = EmptyHierarchyError
    /\ \E k \in 1..(Len(lastCall.visited) - 1) :
           heap[lastCall.visited[k]].final

(***************************************************************************)
(* C19.  Every call of type_tags ends by returning the table or by raising *)
(* an error of the schema; none runs into the recursion limit of the       *)
(* interpreter, whatever cycles the base references form.                  *)
(***************************************************************************)
C19_Terminates == lastCall.err # RecursionError

(***************************************************************************)
(* C13.  A tag belongs to at most one union: the unions whose tag it is    *)
(* are at most one, the one tag.union names.  A Union constructed with a   *)
(* tag that is attached already fails and changes nothing, and a tag once  *)
(* attached stays attached to the same union.                              *)
(***************************************************************************)
AttachedOnce ==
    \A t \in Tags :
        /\ Cardinality({u \in Unions : heap[u].tag = t}) <= 1
        /\ \A u \in Unions : heap[u].tag = t <=> heap[t].union = u

FirstUnionStays ==
    /\ \A t \in Tags : heap[t].union # 0 => heap'[t].union = heap[t].union
    /\ (lastCall'.op = "Union" /\ heap[lastCall'.arg].union # 0) =>
           /\ lastCall'.err = TagAttachedError
           /\ heap' = heap

C13_TagInOneUnion == []AttachedOnce /\ [][FirstUnionStays]_vars

\* A second construction with the tag of a union has just failed.
C13_Witness ==
    /\ lastCall.op = "Union"
    /\ lastCall.err = TagAttachedError
    /\ heap[lastCall.arg].union \in Unions
    /\ heap[heap[lastCall.arg].union].tag = lastCall.arg

(***************************************************************************)
(* C14.  After any sequence of setter calls every flag of every union has  *)
(* one of its values: format None, declare or define; equality and hash    *)
(* None or define; doc_mode member or tag; storage_mode trivial or         *)
(* movable.  A call with any other value raises (set_storage_mode the      *)
(* error of the storage mode) and leaves the union as it was.              *)
(***************************************************************************)
FlagValues(op) ==
    CASE op = "set_format_mode" -> {PyNone, "declare", "define"}
      [] op = "set_equality_mode" -> {PyNone, "define"}
      [] op = "set_hash_mode" -> {PyNone, "define"}
      [] op = "set_doc_mode" -> {"member", "tag"}
      [] op = "set_storage_mode" -> {"trivial", "movable"}

SetterOps ==
    {"set_format_mode", "set_equality_mode", "set_hash_mode",
     "set_doc_mode", "set_storage_mode"}

FlagsInRange ==
    /\ \A u \in Unions :
           /\ heap[u].format \in FlagValues("set_format_mode")
           /\ heap[u].equality \in FlagValues("set_equality_mode")
           /\ heap[u].hash \in FlagValues("set_hash_mode")
           /\ heap[u].doc_mode \in FlagValues("set_doc_mode")
           /\ pc = ScriptsUnions =>
                  heap[u].storage_mode \in FlagValues("set_storage_mode")
    /\ (lastCall.op \in SetterOps
           /\ lastCall.which \notin FlagValues(lastCall.op)) =>
           lastCall.err = IF lastCall.op = "set_storage_mode"
                          THEN InvalidStorageModeError
                          ELSE InvalidValueError

RejectedCallChangesNothing ==
    (lastCall'.op \in SetterOps
        /\ lastCall'.which \notin FlagValues(lastCall'.op)) =>
        heap' = heap

C14_FlagsValid == []FlagsInRange /\ [][RejectedCallChangesNothing]_vars

\* set_storage_mode has just rejected a value for a union whose storage
\* mode an earlier call had set to movable.
C14_Witness ==
    /\ lastCall.op = "set_storage_mode"
    /\ lastCall.err = InvalidStorageModeError
    /\ heap[lastCall.arg].storage_mode = "movable"

(***************************************************************************)
(* C20.  No union has doc_mode = tag while the doc of its tag is None, and *)
(* a call set_doc_mode("tag") on a union whose tag has no doc raises       *)
(* MissingDocError.                                                        *)
(***************************************************************************)
MissingDocError == "MissingDocError"

C20_DocModeNeedsTagDoc ==
    /\ \A u \in Unions :
           heap[u].doc_mode = "tag" => heap[heap[u].tag].doc # PyNone
    /\ (lastCall.op = "set_doc_mode" /\ lastCall.which = "tag"
           /\ heap[heap[lastCall.arg].tag].doc = PyNone) =>
           lastCall.err = MissingDocError

(***************************************************************************)
(* C21.  No variant name repeats within one union: a constructor call      *)
(* whose variant list holds two variants of the same name raises           *)
(* DuplicateVariantError, and the variants of every union that exists have *)
(* pairwise distinct names.                                                *)
(***************************************************************************)
DuplicateVariantError == "DuplicateVariantError"

VariantNamesRepeat(members) ==
    \E i, j \in DOMAIN members : i # j /\ members[i].name = members[j].name

C21_VariantNamesDistinct ==
    /\ \A u \in Unions : ~VariantNamesRepeat(heap[u].members)
    /\ (lastCall.op = "Union" /\ VariantNamesRepeat(lastCall.which)) =>
           lastCall.err = DuplicateVariantError

(***************************************************************************)
(* C22.  No union that was accepted holds an Alias variant whose target is *)
(* the name of the union itself: a constructor call with such a variant    *)
(* raises an error and leaves no union behind.                             *)
(***************************************************************************)
AliasesSelf(name, members) ==
    \E k \in DOMAIN members :
        members[k].kind = "alias" /\ members[k].target = name

C22_NoSelfAlias ==
    /\ \A u \in Unions : ~AliasesSelf(heap[u].name, heap[u].members)
    /\ (lastCall.op = "Union" /\ AliasesSelf("TokenData", lastCall.which)) =>
           lastCall.err # NoError

(***************************************************************************)
(* C23.  The counter of type_tags starts at the start value the schema     *)
(* configures, and at 1 when it configures none: in a returned table the   *)
(* k-th entry of a concrete type holds the start value plus k - 1.         *)
(***************************************************************************)
ConfiguredStart ==
    LET start_value == heap[Len(heap)].start_value
    IN  IF start_value.isNone THEN 1 ELSE start_value.v

ConcreteEntries ==
    {k \in 1..Len(lastCall.owner) : lastCall.owner[k][2] = "tag"}

C23_StartsAtConfiguredValue ==
    TagsReturned =>
        \A k \in ConcreteEntries :
            lastCall.tags[k][2] =
                ConfiguredStart
                    + Cardinality({j \in ConcreteEntries : j < k})

(***************************************************************************)
(* C24.  A returned table holds exactly one pair (name, v) for each        *)
(* concrete type reachable from the root, exactly two pairs, First<Name>   *)
(* directly followed by Last<Name>, for each abstract type reachable from  *)
(* the root, and nothing else.  The pairs of an abstract type come after   *)
(* the pairs of all its descendants, and of two children of one type the   *)
(* pairs of the one earlier by name, with those of its descendants, come   *)
(* before the pairs of the later one and of its descendants.               *)
(***************************************************************************)
\* The positions of the table written for t or for a descendant of t.
EntriesBelow(t) ==
    {k \in 1..Len(lastCall.owner) : IsOrDerivesFrom(lastCall.owner[k][1], t)}

C24_TableLayout ==
    TagsReturned =>
        /\ \A k \in 1..Len(lastCall.owner) : lastCall.owner[k][1] \in FromRoot
        /\ \A c \in FromRoot :
               IF heap[c].final
               THEN /\ Cardinality(EntriesOf(c, "tag")) = 1
                    /\ EntriesOf(c, "first") \cup EntriesOf(c, "last") = {}
                    /\ \A k \in EntriesOf(c, "tag") :
                           lastCall.tags[k][1] = heap[c].name
               ELSE /\ EntriesOf(c, "tag") = {}
                    /\ Cardinality(EntriesOf(c, "first")) = 1
                    /\ \A k \in EntriesOf(c, "first") :
                           /\ EntriesOf(c, "last") = {k + 1}
                           /\ lastCall.tags[k][1] = FirstPrefix \o heap[c].name
                           /\ lastCall.tags[k + 1][1] =
                                  LastPrefix \o heap[c].name
                           /\ \A j \in EntriesBelow(c) : j <= k + 1
        /\ \A a, b \in FromRoot :
               (/\ heap[a].base.kind = "obj"
                /\ heap[a].base = heap[b].base
                /\ StrLess(heap[a].name, heap[b].name)) =>
                   \A i \in EntriesBelow(a) : \A j \in EntriesBelow(b) : i < j

\* A table with an abstract type that has a child and a later sibling.
C24_Witness ==
    /\ TagsReturned
    /\ \E a, b \in FromRoot :
           /\ ~heap[a].final
           /\ heap[a].base.kind = "obj"
           /\ heap[a].base = heap[b].base
           /\ StrLess(heap[a].name, heap[b].name)
           /\ Cardinality(EntriesBelow(a)) >= 3

(***************************************************************************)
(* C25.  After a successful resolution no reference of a registered type   *)
(* is still a string: every base is absent or an object, and the target of *)
(* every Node and NodeList member of every registered Node is an object    *)
(* registered under the name the member was declared with.                 *)
(* As checked: the bases in both generations of the module, the members in *)
(* support/codegen/ast.py; in scripts/modules/codegen/ast.py every member  *)
(* still holds the name it was declared with.                              *)
(***************************************************************************)
BuiltByScripts == lastCall.op = "NodeRegistry" /\ lastCall.arg = ScriptsAst

\* The child members of the registered Nodes, as <<object, position>>.
RegisteredChildMembers ==
    UNION { {<<d, k>> : k \in {j \in 1..Len(heap[d].members) :
                                  is_child(heap[d].members[j])}} :
            d \in {t \in Registered : IsNode(heap[t])} }

BasesResolved ==
    \A d \in Registered :
        /\ heap[d].base.kind \in {"none", "obj"}
        /\ heap[d].base.kind = "obj" =>
               /\ written[d].base.kind = "str"
               /\ Lookup(NODE_TYPES.types, written[d].base.name)
                      = heap[d].base.ref

MemberResolved(m) ==
    /\ MemberAt(heap, m).type.kind = "obj"
    /\ HasName(NODE_TYPES.types, MemberAt(written, m).type.name)
    /\ Lookup(NODE_TYPES.types, MemberAt(written, m).type.name)
           = MemberAt(heap, m).type.ref

C25_AsStated ==
    pc = "ready" =>
        /\ BasesResolved
        /\ \A m \in RegisteredChildMembers : MemberResolved(m)

C25_ReferencesResolved ==
    pc = "ready" =>
        /\ BasesResolved
        /\ \A m \in RegisteredChildMembers :
               IF BuiltByScripts
               THEN MemberAt(heap, m) = MemberAt(written, m)
               ELSE MemberResolved(m)

\* A registry of support/codegen/ast.py with a Node whose NodeList member
\* names a type declared after it.
C25_Witness ==
    /\ pc = "ready"
    /\ ~BuiltByScripts
    /\ \E m \in RegisteredChildMembers :
           /\ MemberAt(heap, m).kind = "node_list"
           /\ MemberAt(heap, m).type.kind = "obj"
           /\ MemberAt(heap, m).type.ref > m[1]

(***************************************************************************)
(* C26.  A registry that was built is closed under base and derived: the   *)
(* base B of every registered type is registered (get(B.name) returns B),  *)
(* and every element of the derived list of a registered type is           *)
(* registered, also when bases are given as objects.                       *)
(***************************************************************************)
IsRegistered(t) ==
    /\ HasName(NODE_TYPES.types, heap[t].name)
    /\ Lookup(NODE_TYPES.types, heap[t].name) = t

C26_ClosedUnderBaseAndDerived ==
    pc = "ready" =>
        \A t \in Registered :
            /\ heap[t].base.kind = "obj" => IsRegistered(heap[t].base.ref)
            /\ \A k \in 1..Len(heap[t].derived) :
                   IsRegistered(heap[t].derived[k])

(***************************************************************************)
(* C27.  The labels of a returned table are pairwise distinct, also when   *)
(* the name of a concrete type is First or Last followed by the name of an *)
(* abstract type.                                                          *)
(***************************************************************************)
C27_LabelsDistinct ==
    TagsReturned =>
        \A i, j \in 1..Len(lastCall.tags) :
            i # j => lastCall.tags[i][1] # lastCall.tags[j][1]

(***************************************************************************)
(* C28.  The tag table does not depend on the order of the declarations:   *)
(* whatever type_tags returned or raised for the list as written, it       *)
(* returns or raises for the same declarations listed in ascending order   *)
(* of name and for the list reversed.  Two lists that are permutations of  *)
(* each other have the same ascending list, so their tables are equal.     *)
(***************************************************************************)
\* What type_tags gives for the declarations as written, listed in order p.
TagsInOrder(p) ==
    LET r == NodeRegistry(written, p)
        t == type_tags(r.heap, r.types)
    IN  IF r.err # NoError THEN [err |-> r.err, tags |-> <<>>]
        ELSE [err |-> t.err, tags |-> t.tags]

C28_OrderIndependent ==
    (pc = "ready" /\ lastCall.op = "type_tags") =>
        LET here == [err |-> lastCall.err, tags |-> lastCall.tags]
        IN  /\ TagsInOrder(sorted_by_name(written, decls)) = here
            /\ TagsInOrder([k \in 1..Len(decls) |->
                               decls[Len(decls) + 1 - k]]) = here

\* A table of five pairs or more for a list in which a type is declared
\* before a sibling of a smaller name.
C28_Witness ==
    /\ TagsReturned
    /\ Len(lastCall.tags) >= 5
    /\ \E a, b \in FromRoot :
           /\ a < b
           /\ heap[a].base.kind = "obj"
           /\ heap[a].base = heap[b].base
           /\ StrLess(heap[b].name, heap[a].name)

(***************************************************************************)
(* C29.  The constructor runs its checks phase by phase over the whole     *)
(* list, so the error of a list with several defects is fixed by phase:    *)
(* DuplicateNameError if any two elements share a name, else               *)
(* UnknownTypeError if any string base names no element, else              *)
(* FinalDerivationError if any element names a final base, wherever the    *)
(* defects sit in the list.  A phase has not begun when an earlier one     *)
(* fails: no reference is resolved before the names are checked, and no    *)
(* derived list is filled before every reference is resolved.              *)
(***************************************************************************)
C29_ErrorFixedByPhase ==
    Constructed =>
        /\ error = IF ~NamesDistinct THEN DuplicateNameError
                   ELSE IF ~BasesKnown THEN UnknownTypeError
                   ELSE IF DerivesFromFinal THEN FinalDerivationError
                   ELSE NoError
        /\ pc = "aborted" <=> error # NoError
        /\ error = DuplicateNameError => heap = written
        /\ error = UnknownTypeError =>
               \A d \in Objects : heap[d].derived = <<>>

\* A list with all three defects in which the unknown base and the final
\* base are declared before the second element of the duplicated name.
C29_Witness ==
    /\ pc = "aborted"
    /\ error = DuplicateNameError
    /\ \E i, j, k \in 1..Len(decls) :
           /\ i < j
           /\ k < j
           /\ written[decls[i]].name = written[decls[j]].name
           /\ written[decls[k]].base.kind = "str"
           /\ \A e \in Listed :
                  written[e].name # written[decls[k]].base.name
    /\ DerivesFromFinal

(***************************************************************************)
(* C30.  init_tree rejects a tree in which two nodes share a name and      *)
(* accepts every other tree.  In an accepted tree the leaves hold the ids  *)
(* 1..N in depth-first order of the declared children, and for every node  *)
(* X and every leaf L of the tree, the id of L lies within X.id_range      *)
(* exactly if L is X or lies below X.                                      *)
(***************************************************************************)
TreeRoot == Len(heap)

\* The nodes met from x on, depth first along the children as declared; a
\* node that is reached twice is listed twice.
RECURSIVE Met(_)
RECURSIVE MetFrom(_, _)
Met(x) == <<x>> \o MetFrom(written[x].children, 1)

MetFrom(children, i) ==
    IF i > Len(children) THEN <<>>
    ELSE Met(children[i]) \o MetFrom(children, i + 1)

IsLeaf(x) == written[x].children = <<>>

LeavesMet == SelectSeq(Met(TreeRoot), IsLeaf)

Below(x) == {Met(x)[k] : k \in 1..Len(Met(x))}

NameMetTwice ==
    \E i, j \in 1..Len(Met(TreeRoot)) :
        /\ i # j
        /\ written[Met(TreeRoot)[i]].name = written[Met(TreeRoot)[j]].name

C30_LeafIdsAndRanges ==
    pc # "declaring" =>
        /\ NameMetTwice <=> (pc = "aborted" /\ error = NameDefinedError)
        /\ pc = "ready" =>
               /\ \A k \in 1..Len(LeavesMet) : heap[LeavesMet[k]].id_ = k
               /\ \A x \in Below(TreeRoot) : \A k \in 1..Len(LeavesMet) :
                      LET r == id_range(heap, x)
                      IN  /\ r.err = NoError
                          /\ (r.lo <= k /\ k <= r.hi)
                                 <=> LeavesMet[k] \in Below(x)

\* id_range was read of a node that has children and is not the root, in a
\* tree with a leaf before it.
C30_Witness ==
    /\ pc = "ready"
    /\ lastCall.op = "id_range"
    /\ lastCall.arg \in Below(TreeRoot) \ {TreeRoot}
    /\ ~IsLeaf(lastCall.arg)
    /\ lastCall.err = NoError
    /\ lastCall.val[1] > 1

====
